---- MODULE Spec2Model ----
(***************************************************************************)
(* A model of the retrieval-augmented-generation core of the Swiss voting  *)
(* assistant: the chunker (backend/embeddings.py) and the RAG pipeline     *)
(* (backend/rag.py) with its two collaborators, the vector index           *)
(* (backend/vector_store.py) and the metadata store (backend/database.py). *)
(*                                                                         *)
(* Two state machines share the module.  SpecChunk runs chunk_text one     *)
(* loop iteration per step; Spec runs one query_with_context call, one     *)
(* collaborator call per step.  Each specification keeps the other         *)
(* machine's variables at their initial values.                            *)
(***************************************************************************)
EXTENDS Integers, Sequences, FiniteSets, TLC

VARIABLES
    \* ---- chunk_text (embeddings.py) ----
    text,             \* the input text, a sequence of characters
    chunk_size,       \* argument chunk_size
    overlap,          \* argument overlap
    start,            \* local start
    chunks,           \* local chunks (the list returned)
    windows,          \* history: the windows cut, in order, with their chunks
    cpc,              \* position in chunk_text: "idle" | "entry" | "loop" | "done"
    \* ---- collaborators of the RAG pipeline ----
    index,            \* the vector index: the set of chunks it holds
    dbRows,           \* the metadata store: the vote_ids that have an Initiative row
    \* ---- index_initiative_brochures (scripts/index_brochures.py) ----
    brochures,        \* Initiative.brochure_texts of each initiative
    titles,           \* Initiative.schlagwort of each initiative
    collection,       \* the entries of the ChromaDB collection, in order of arrival
    ipass,            \* the number of indexing passes started
    itodo,            \* the initiatives the running pass has still to visit
    ilog,             \* history: what each pass did with each initiative
    \* ---- query_with_context (rag.py) ----
    query,            \* argument query
    language,         \* argument language
    top_k,            \* argument top_k
    include_metadata, \* argument include_metadata
    pc,               \* position in query_with_context
    contexts,         \* local contexts of retrieve_with_fallback / query_with_context
    other_langs,      \* the fallback languages the for loop has still to visit
    queried,          \* history: the index calls made, in order
    todo,             \* get_initiative_metadata: ids of set(vote_ids) not yet visited
    metadata,         \* local metadata of get_initiative_metadata / query_with_context
    dbLog,            \* history: the metadata-store operations made, in order
    result,           \* the value returned by query_with_context
    \* ---- the process-wide handles (vector_store.py, rag.py) ----
    g_vector_store,   \* the global _vector_store: 0 for None, else a VectorStore
    g_rag_pipeline,   \* the global _rag_pipeline: 0 for None, else a RAGPipeline
    stores,           \* the VectorStore instances built: whether collection is set
    pipelines,        \* the RAGPipeline instances built: their vector_store
    tpc,              \* position of each request
    tstore,           \* what get_vector_store returned to each request
    tpipe,            \* what get_rag_pipeline returned to each request
    tlog,             \* history: failures, returns and index queries, in order
    \* ---- SwissVotingPipeline.inlet (pipeline.py) ----
    inlet_body,       \* argument body, and the value inlet returns
    inlet_body0,      \* history: body as it was passed in
    user_query,       \* local user_query
    inlet_language,   \* local language
    rag_result,       \* local rag_result (<<>> before the call returns)
    inlet_log,        \* history: the calls made from the try block and their outcomes
    inlet_pc          \* position in inlet

chunkVars == <<text, chunk_size, overlap, start, chunks, windows, cpc>>
storeVars == <<index, dbRows>>
indexerVars == <<brochures, titles, collection, ipass, itodo, ilog>>
ragVars   == <<query, language, top_k, include_metadata, pc, contexts,
               other_langs, queried, todo, metadata, dbLog, result>>
handleVars == <<g_vector_store, g_rag_pipeline, stores, pipelines, tpc, tstore, tpipe, tlog>>
inletVars == <<inlet_body, inlet_body0, user_query, inlet_language, rag_result, inlet_log, inlet_pc>>
vars      == <<chunkVars, storeVars, indexerVars, ragVars, handleVars, inletVars>>

Max(S) == CHOOSE x \in S : \A y \in S : y <= x
Min2(a, b) == IF a <= b THEN a ELSE b
Max2(a, b) == IF a >= b THEN a ELSE b

(***************************************************************************)
(* Part 1.  chunk_text                                                     *)
(***************************************************************************)

\* Longest text tried.
MaxLen == 4
\* Largest chunk_size tried.
MaxChunkSize == 4

\* The characters texts are made of: a letter, a blank and the three
\* sentence terminators chunk_text looks for.
Alphabet == {"a", " ", ".", "!", "?"}
Whitespace == {" "}

Texts == UNION {[1..n -> Alphabet] : n \in 0..MaxLen}

\* The list of chunks stops growing at this length, which no returning call
\* reaches (it returns at most one chunk per character of the text): only a
\* call that loops forever is cut, and its state then repeats.
ChunksCap == MaxLen + 2

\* Python's adjustment of a slice bound i on a sequence of length n.
PyIdx(i, n) == IF i < 0 THEN Max2(i + n, 0) ELSE Min2(i, n)

\* t[s:e]
Slice(t, s, e) ==
    LET a == PyIdx(s, Len(t))
        b == PyIdx(e, Len(t))
    IN  IF a >= b THEN <<>> ELSE SubSeq(t, a + 1, b)

\* t.rfind(c, s, e): the highest 0-based position of c in t[s:e], or -1.
RFind(t, c, s, e) ==
    LET a == PyIdx(s, Len(t))
        b == PyIdx(e, Len(t))
        hits == {i \in a..(b - 1) : t[i + 1] = c}
    IN  IF hits = {} THEN -1 ELSE Max(hits)

StripNothing(s) == s
\* s.strip()
Strip(s) ==
    LET keep == {i \in 1..Len(s) : s[i] \notin Whitespace}
    IN  IF keep = {} THEN <<>>
        ELSE SubSeq(s, CHOOSE i \in keep : \A j \in keep : i <= j, Max(keep))

\* Lines 149-153: the position of the last sentence terminator in the window.
SentenceEnd(t, s, e) ==
    Max({RFind(t, ".", s, e), RFind(t, "!", s, e), RFind(t, "?", s, e)})

WindowEndWide(t, s, size) ==
    LET end == s + size + 1
    IN  IF end < Len(t) /\ SentenceEnd(t, s, end) > s
        THEN SentenceEnd(t, s, end) + 1
        ELSE end
\* Lines 144-156: the end of the window that starts at s.
WindowEnd(t, s, size) ==
    LET end == s + size
    IN  IF end < Len(t) /\ SentenceEnd(t, s, end) > s
        THEN SentenceEnd(t, s, end) + 1
        ELSE end

NextStartSkips(t, end, ov) == IF end < Len(t) THEN end + 1 ELSE Len(t)
\* Line 163: the start of the next window.
NextStart(t, end, ov) == IF end < Len(t) THEN end - ov ELSE Len(t)

\* An entry of the history windows: the window text[start:end] of one
\* iteration and the chunk cut from it (empty when it was dropped).
Window(s, e, chunk) == [start |-> s, end |-> e, chunk |-> chunk]

\* Before the call: no arguments yet.
IdleChunkVars ==
    /\ text = <<>>
    /\ chunk_size = 1
    /\ overlap = 0
    /\ start = 0
    /\ chunks = <<>>
    /\ windows = <<>>
    /\ cpc = "idle"

\* chunk_text is called (line 120) with a text, a chunk_size and an overlap.
\* Nothing in the function checks overlap against chunk_size (lines 132-135
\* only fill in the defaults), so overlap >= chunk_size is tried too.
ChunkCall ==
    /\ cpc = "idle"
    /\ text' \in Texts
    /\ chunk_size' \in 1..MaxChunkSize
    /\ overlap' \in 0..MaxChunkSize
    /\ cpc' = "entry"
    /\ UNCHANGED <<start, chunks, windows>>

\* Texts two characters longer than MaxLen, over a letter and one terminator.
LongTexts == [1..(MaxLen + 2) -> {"a", "."}]

\* chunk_text is called (line 120) with one of the longer texts.
ChunkCallLong ==
    /\ cpc = "idle"
    /\ text' \in LongTexts
    /\ chunk_size' \in 1..(MaxChunkSize + 1)
    /\ overlap' \in 0..(MaxChunkSize + 1)
    /\ cpc' = "entry"
    /\ UNCHANGED <<start, chunks, windows>>

\* Lines 137-141: the empty text returns [] at once; otherwise the loop is
\* entered with chunks = [] and start = 0.
ChunkEntry ==
    /\ cpc = "entry"
    /\ cpc' = IF Len(text) = 0 THEN "done" ELSE "loop"
    /\ chunks' = <<>>
    /\ start' = 0
    /\ windows' = <<>>
    /\ UNCHANGED <<text, chunk_size, overlap>>

\* One iteration of the while loop (lines 143-163).
ChunkStep ==
    /\ cpc = "loop"
    /\ start < Len(text)
    /\ \E end \in {WindowEnd(text, start, chunk_size)} :
       \E chunk \in {Strip(Slice(text, start, end))} :
          /\ chunks' = IF chunk # <<>> /\ Len(chunks) < ChunksCap
                       THEN Append(chunks, chunk)
                       ELSE chunks
          /\ start' = NextStart(text, end, overlap)
          /\ windows' = IF Len(windows) < ChunksCap
                        THEN Append(windows, Window(start, end, chunk))
                        ELSE windows
    /\ UNCHANGED <<text, chunk_size, overlap, cpc>>

\* The loop condition fails: return chunks (line 165).
ChunkReturn ==
    /\ cpc = "loop"
    /\ ~(start < Len(text))
    /\ cpc' = "done"
    /\ UNCHANGED <<text, chunk_size, overlap, start, chunks, windows>>

NextChunk == ChunkCall \/ ChunkEntry \/ ChunkStep \/ ChunkReturn

(***************************************************************************)
(* Part 2.  The collaborators: the vector index and the metadata store     *)
(***************************************************************************)

\* Largest top_k tried.
MaxTopK == 4

\* rag.py line 107: the supported languages, in fallback order.
SupportedLangs == <<"de", "fr", "it">>
\* The language codes a request may carry: the supported ones and one other.
RequestLangs == {"de", "fr", "it", "en"}
\* The initiatives that have brochures.
Votes == {"v1", "v2"}
\* The queries tried; the empty string is one of them.
Queries == {"", "q1"}

\* The chunks the indexer can have written (index_brochures.py lines 65-75):
\* a chunk stands for its text and carries the metadata vote_id, language.
Corpus == {[vote_id |-> v, language |-> l] : v \in Votes, l \in {"de", "fr", "it"}}

\* 1.0 in the unit distances and similarities are counted in (1e-5).
One == 100000

\* The distance the index computes between a query and a chunk, in 1e-5.
\* The two queries rank the chunks differently; distances tie, exceed 1.0 and
\* fall between two multiples of 1e-4.
Distance(q, c) ==
    LET k == <<c.language, c.vote_id>>
    IN  IF q = "q1"
        THEN CASE k = <<"de", "v1">> -> 80000 [] k = <<"de", "v2">> -> 90000
               [] k = <<"fr", "v1">> -> 10000 [] k = <<"fr", "v2">> -> 30004
               [] k = <<"it", "v1">> -> 50000 [] OTHER -> 150000
        ELSE CASE k = <<"de", "v1">> -> 20000 [] k = <<"de", "v2">> -> 20000
               [] k = <<"fr", "v1">> -> 99996 [] k = <<"fr", "v2">> -> 20000
               [] k = <<"it", "v1">> -> 0     [] OTHER -> 100000

\* The chunks of the index that pass the filter where={"language": lang}.
Matching(lang) == {c \in index : c.language = lang}

\* The orders in which the index may list the matching chunks: nearest first,
\* chunks at equal distance in either order.
Rankings(q, lang) ==
    LET S == Matching(lang)
        n == Cardinality(S)
    IN  {r \in [1..n -> S] :
            /\ \A i, j \in 1..n : i # j => r[i] # r[j]
            /\ \A i, j \in 1..n : i < j => Distance(q, r[i]) <= Distance(q, r[j])}

\* What collection.query can answer (vector_store.py lines 124-135).  The call
\* may raise; n_results < 1 always raises; otherwise the answer lists the
\* nearest matching chunks.  An index answers with at most n_results of them;
\* the model also lets it answer with one more, so that nothing here rests on
\* the index keeping to n_results.
IndexResponses(q, lang, n) ==
    {[ok |-> FALSE, docs |-> <<>>]} \cup
    IF n < 1 THEN {}
    ELSE {[ok |-> TRUE, docs |-> SubSeq(r, 1, Min2(m, Len(r)))] :
             r \in Rankings(q, lang), m \in {n, n + 1}}

\* What one metadata-store operation can do: complete or raise.
DbOutcomes == {"ok", "raise"}

(***************************************************************************)
(* Part 3.  rag.py                                                         *)
(***************************************************************************)

Round4Down(x) == x - (x % 10)
\* round(x, 4) of a value counted in 1e-5: the nearest multiple of 10, a tie
\* going to the even one.
Round4(x) ==
    LET r == x % 10
        lo == x - r
    IN  IF r < 5 THEN lo
        ELSE IF r > 5 THEN lo + 10
        ELSE IF (lo \div 10) % 2 = 0 THEN lo ELSE lo + 10

SimilarityIsDistance(distance) == Min2(distance, One)
\* Line 60: similarity = 1.0 - min(distance, 1.0)
Similarity(distance) == One - Min2(distance, One)

\* Line 29: the default score_threshold, the one retrieve_with_fallback uses.
ScoreThreshold == 0

\* The text of chunk c, which is not looked into: a token naming the chunk.
TextOf(c) == <<"text", c.vote_id, c.language>>

\* Lines 63-69: the context dict built for one result of the index.
Context(q, c) ==
    [text       |-> TextOf(c),
     vote_id    |-> c.vote_id,
     language   |-> c.language,
     similarity |-> Round4(Similarity(Distance(q, c))),
     distance   |-> Round4(Distance(q, c))]

\* Lines 54-70: the contexts built from the index's results docs.
Contexts(q, docs) ==
    LET kept == SelectSeq(docs, LAMBDA c : Similarity(Distance(q, c)) >= ScoreThreshold)
    IN  [i \in 1..Len(kept) |-> Context(q, kept[i])]

RetrieveContextNoHandler(q, resp) ==
    IF ~resp.ok THEN [raised |-> TRUE, contexts |-> <<>>]
    ELSE [raised |-> FALSE, contexts |-> Contexts(q, resp.docs)]
\* retrieve_context (lines 45-77) on the index's answer resp: the contexts it
\* returns, and whether an exception leaves it.
RetrieveContext(q, resp) ==
    IF ~resp.ok THEN [raised |-> FALSE, contexts |-> <<>>]
    ELSE [raised |-> FALSE, contexts |-> Contexts(q, resp.docs)]

FallbackNeededOffByHalf(n, k) == n < k
\* Line 104: whether contexts of other languages are fetched.
FallbackNeeded(n, k) == n < k \div 2

OtherLangsUnfiltered(preferred) == SupportedLangs
OtherLangsReversed(preferred) ==
    SelectSeq(<<"it", "fr", "de">>, LAMBDA l : l # preferred)
\* Line 107: the languages of the fallback loop.
OtherLangs(preferred) ==
    SelectSeq(SupportedLangs, LAMBDA l : l # preferred)

ExtendFront(ctxs, additional) == additional \o ctxs
ExtendReplace(ctxs, additional) == additional
\* Line 115: contexts.extend(additional)
Extend(ctxs, additional) == ctxs \o additional

TruncateNone(ctxs, k) == ctxs
\* Line 120: contexts[:top_k], for top_k >= 0.
Truncate(ctxs, k) == SubSeq(ctxs, 1, Min2(k, Len(ctxs)))

\* Line 218: the vote_ids of the contexts.
VoteIds(ctxs) == {ctxs[i].vote_id : i \in 1..Len(ctxs)}

\* The Initiative row of vote_id v (models.py): a string column that is NULL
\* or empty is "", a JSON array that is NULL or empty is <<>>.  One initiative
\* has every field and more party positions than the prompt shows; the other
\* has fewer party positions and neither a position of the Bundesrat, nor a
\* date, nor a brochure link.
Row(v) ==
    IF v = "v1"
    THEN [schlagwort               |-> "Titel v1",
          abstimmungsdatum         |-> "2026-03-08",
          position_bundesrat       |-> "Ablehnung",
          parteiparolen            |-> <<"p1", "p2", "p3", "p4", "p5", "p6">>,
          abstimmungsbuechlein_pdf |-> "v1.pdf"]
    ELSE [schlagwort               |-> "Titel v2",
          abstimmungsdatum         |-> "",
          position_bundesrat       |-> "",
          parteiparolen            |-> <<"p1", "p2", "p3">>,
          abstimmungsbuechlein_pdf |-> ""]

\* Lines 142-151: the metadata dict built from an Initiative row (policy_area
\* and details_url, which nothing reads, are left out).
InitiativeMetadata(v) ==
    [vote_id            |-> v,
     title              |-> Row(v).schlagwort,
     date               |-> Row(v).abstimmungsdatum,
     position_bundesrat |-> Row(v).position_bundesrat,
     parteiparolen      |-> Row(v).parteiparolen,
     pdf_url            |-> Row(v).abstimmungsbuechlein_pdf]

EmptyMap == [v \in {} |-> v]

EnterAlways(md, v, rows) == md @@ (v :> InitiativeMetadata(v))
\* Lines 137-151: the row of vote_id v is fetched from the store that holds
\* rows; when there is one ("if initiative") its metadata is entered into md.
Enter(md, v, rows) ==
    IF v \in rows THEN md @@ (v :> InitiativeMetadata(v)) ELSE md

MetadataHandlerPropagates(md) == [raised |-> TRUE, metadata |-> md]
\* Lines 153-156: the handler of get_initiative_metadata, entered with the
\* mapping md built so far: it logs and falls through to return metadata.
MetadataHandler(md) == [raised |-> FALSE, metadata |-> md]

\* One line of the formatted context.
Line(kind, vote, body) == [kind |-> kind, vote_id |-> vote, body |-> body]

Sentinel == <<Line("sentinel", "", <<"Keine relevanten Informationen gefunden.">>)>>

\* Lines 172-177: the vote_ids in the order of their first occurrence.
RECURSIVE GroupOrder(_)
GroupOrder(ctxs) ==
    IF ctxs = <<>> THEN <<>>
    ELSE LET init == GroupOrder(SubSeq(ctxs, 1, Len(ctxs) - 1))
             v    == ctxs[Len(ctxs)].vote_id
         IN  IF \E i \in 1..Len(init) : init[i] = v THEN init ELSE Append(init, v)

RECURSIVE ChunkLinesReversed(_)
ChunkLinesReversed(group) ==
    IF group = <<>> THEN <<>>
    ELSE ChunkLinesReversed(Tail(group))
         \o <<Line("text", group[1].vote_id, group[1].text), Line("blank", "", <<>>)>>
\* Lines 185-187 (and prompts.py lines 119-121): the lines of one group's chunks.
RECURSIVE ChunkLines(_)
ChunkLines(group) ==
    IF group = <<>> THEN <<>>
    ELSE <<Line("text", group[1].vote_id, group[1].text), Line("blank", "", <<>>)>>
         \o ChunkLines(Tail(group))

\* Lines 181-187 for the groups vs: a header, then the group's chunks.
RECURSIVE GroupLines(_, _)
GroupLines(vs, ctxs) ==
    IF vs = <<>> THEN <<>>
    ELSE LET group == SelectSeq(ctxs, LAMBDA c : c.vote_id = vs[1])
         IN  <<Line("header", vs[1], <<"initiative_title", group[1].vote_id>>)>>
             \o ChunkLines(group) \o GroupLines(Tail(vs), ctxs)

FormatWithoutSentinel(ctxs) == GroupLines(GroupOrder(ctxs), ctxs)
\* format_context_for_llm (lines 168-189): the lines that are joined.
FormatContextForLlm(ctxs) ==
    IF ctxs = <<>> THEN Sentinel ELSE GroupLines(GroupOrder(ctxs), ctxs)

\* prompts.py line 130: the number of party positions shown.
ParolenLimit == 5

AllParolen(parolen) == parolen
\* prompts.py line 130: metadata["parteiparolen"][:5]
FirstParolen(parolen) == SubSeq(parolen, 1, Min2(ParolenLimit, Len(parolen)))

\* prompts.py lines 131: one line per party position.
ParoleLines(v, parolen) == [i \in 1..Len(parolen) |-> Line("parole", v, <<parolen[i]>>)]

\* prompts.py lines 124-134: the metadata lines of a group, m being the
\* group's metadata dict (<<>> when initiative_metadata has none).
MetadataLines(v, m) ==
    IF m = <<>> THEN <<>>
    ELSE (IF m[1].position_bundesrat # ""
          THEN <<Line("position", v, <<m[1].position_bundesrat>>)>> ELSE <<>>)
         \o (IF m[1].parteiparolen # <<>>
             THEN <<Line("parolen_header", v, <<>>)>>
                  \o ParoleLines(v, FirstParolen(m[1].parteiparolen))
             ELSE <<>>)
         \o (IF m[1].pdf_url # ""
             THEN <<Line("source", v, <<m[1].pdf_url>>)>> ELSE <<>>)

\* prompts.py lines 106-136 for the groups vs: header, date, chunks, metadata
\* and separator of each group.
RECURSIVE RagGroupLines(_, _, _)
RagGroupLines(vs, ctxs, md) ==
    IF vs = <<>> THEN <<>>
    ELSE LET v     == vs[1]
             group == SelectSeq(ctxs, LAMBDA c : c.vote_id = v)
             m     == IF v \in DOMAIN md THEN <<md[v]>> ELSE <<>>
             title == IF m # <<>> THEN <<m[1].title>> ELSE <<"initiative_title", v>>
         IN  <<Line("header", v, title)>>
             \o (IF m # <<>> /\ m[1].date # "" THEN <<Line("date", v, <<m[1].date>>)>> ELSE <<>>)
             \o <<Line("blank", "", <<>>)>>
             \o ChunkLines(group)
             \o MetadataLines(v, m)
             \o <<Line("separator", "", <<>>)>>
             \o RagGroupLines(Tail(vs), ctxs, md)

\* format_rag_context (prompts.py lines 92-138): the lines that are joined;
\* the empty string for no contexts.
FormatRagContext(ctxs, md) ==
    IF ctxs = <<>> THEN <<>>
    ELSE <<Line("intro", "", <<>>)>> \o RagGroupLines(GroupOrder(ctxs), ctxs, md)

\* create_chat_prompt (prompts.py lines 167-171): the context put before the
\* question, built from a result of query_with_context.
PromptContext(res) == FormatRagContext(res.contexts, res.initiative_metadata)

\* prompts.py lines 9-62: the system prompts, by language.
SYSTEM_PROMPT_DE == "Du bist ein hilfreicher Assistent"
SYSTEM_PROMPT_FR == "Tu es un assistant utile"
SYSTEM_PROMPT_IT == "Sei un assistente utile"
SYSTEM_PROMPTS ==
    [l \in {"de", "fr", "it"} |->
        CASE l = "de" -> SYSTEM_PROMPT_DE
          [] l = "fr" -> SYSTEM_PROMPT_FR
          [] l = "it" -> SYSTEM_PROMPT_IT]

\* get_system_prompt (prompts.py line 75): SYSTEM_PROMPTS.get(language, SYSTEM_PROMPT_DE)
GetSystemPrompt(lang) ==
    IF lang \in DOMAIN SYSTEM_PROMPTS THEN SYSTEM_PROMPTS[lang] ELSE SYSTEM_PROMPT_DE

\* Lines 228-235: the dict returned.
RagResult(q, lang, ctxs, md) ==
    [query               |-> q,
     language            |-> lang,
     contexts            |-> ctxs,
     formatted_context   |-> FormatContextForLlm(ctxs),
     initiative_metadata |-> md,
     num_contexts        |-> Len(ctxs)]

InitRagVars ==
    /\ index \in SUBSET Corpus
    /\ dbRows \in SUBSET Votes
    /\ query \in Queries
    /\ language \in RequestLangs
    /\ top_k \in 0..MaxTopK
    /\ include_metadata \in BOOLEAN
    /\ pc = "primary"
    /\ contexts = <<>>
    /\ other_langs = <<>>
    /\ queried = <<>>
    /\ todo = {}
    /\ metadata = EmptyMap
    /\ dbLog = <<>>
    /\ result = <<>>

IdleRagVars ==
    /\ index = {}
    /\ dbRows = {}
    /\ query = ""
    /\ language = "de"
    /\ top_k = 0
    /\ include_metadata = FALSE
    /\ pc = "done"
    /\ contexts = <<>>
    /\ other_langs = <<>>
    /\ queried = <<>>
    /\ todo = {}
    /\ metadata = EmptyMap
    /\ dbLog = <<>>
    /\ result = <<>>

\* An entry of the history queried.
Call(lang, n, resp, got) ==
    [language  |-> lang,              \* the language filtered on
     n_results |-> n,                 \* the number of results asked for
     ok        |-> resp.ok,           \* whether the index answered
     returned  |-> Len(resp.docs),    \* the number of results it answered with
     got       |-> got,               \* the number of contexts retrieve_context returned
     had       |-> contexts]          \* the contexts gathered before the call

\* Lines 96-107: the query in the preferred language and the decision to fall
\* back.  An exception leaving retrieve_context would leave retrieve_with_fallback
\* and query_with_context too: neither has a handler.
PrimaryQuery ==
    /\ pc = "primary"
    /\ \E resp \in IndexResponses(query, language, top_k) :
          LET r == RetrieveContext(query, resp)
          IN  /\ queried' = Append(queried, Call(language, top_k, resp, Len(r.contexts)))
              /\ contexts' = r.contexts
              /\ IF r.raised
                 THEN pc' = "raised" /\ other_langs' = other_langs
                 ELSE IF FallbackNeeded(Len(r.contexts), top_k)
                 THEN pc' = "fallback" /\ other_langs' = OtherLangs(language)
                 ELSE pc' = "return" /\ other_langs' = other_langs
    /\ UNCHANGED <<query, language, top_k, include_metadata, todo, metadata, dbLog, result>>
    /\ UNCHANGED <<chunkVars, storeVars, indexerVars, handleVars, inletVars>>

\* Lines 109-118: one iteration of the fallback loop.
FallbackQuery ==
    /\ pc = "fallback"
    /\ other_langs # <<>>
    /\ LET lang == Head(other_langs)
           n    == top_k - Len(contexts)
       IN  \E resp \in IndexResponses(query, lang, n) :
             LET r == RetrieveContext(query, resp)
             IN  /\ queried' = Append(queried, Call(lang, n, resp, Len(r.contexts)))
                 /\ contexts' = Extend(contexts, r.contexts)
                 /\ other_langs' = Tail(other_langs)
                 /\ IF r.raised THEN pc' = "raised"
                    ELSE IF Len(contexts') >= top_k \/ Tail(other_langs) = <<>>
                    THEN pc' = "return"
                    ELSE pc' = "fallback"
    /\ UNCHANGED <<query, language, top_k, include_metadata, todo, metadata, dbLog, result>>
    /\ UNCHANGED <<chunkVars, storeVars, indexerVars, handleVars, inletVars>>

LookupWanted(include, ids) == ids # {}
\* Line 222: if include_metadata and vote_ids.
WantsMetadata(include, ids) == include /\ ids # {}

\* Line 120 and lines 217-223: retrieve_with_fallback returns contexts[:top_k];
\* query_with_context collects the vote_ids and decides whether to look up
\* metadata; get_initiative_metadata starts with metadata = {} (line 132).
ReturnContexts ==
    /\ pc = "return"
    /\ contexts' = Truncate(contexts, top_k)
    /\ metadata' = EmptyMap
    /\ IF WantsMetadata(include_metadata, VoteIds(contexts'))
       THEN pc' = "lookup" /\ todo' = VoteIds(contexts')
       ELSE pc' = "format" /\ todo' = {}
    /\ UNCHANGED <<query, language, top_k, include_metadata, other_langs, queried, dbLog, result>>
    /\ UNCHANGED <<chunkVars, storeVars, indexerVars, handleVars, inletVars>>

\* An exception inside the with block (database.py lines 72-77: rollback,
\* re-raise, close) reaches the handler of get_initiative_metadata.
AfterDbFailure ==
    LET h == MetadataHandler(metadata)
    IN  /\ metadata' = h.metadata
        /\ pc' = IF h.raised THEN "raised" ELSE "format"
        /\ todo' = {}

\* Lines 136-151: one iteration over set(vote_ids), in any order.
Lookup ==
    /\ pc = "lookup"
    /\ todo # {}
    /\ \E v \in todo, out \in DbOutcomes :
          /\ dbLog' = Append(dbLog, [op |-> "lookup", vote_id |-> v, ok |-> out = "ok"])
          /\ IF out = "ok"
             THEN /\ metadata' = Enter(metadata, v, dbRows)
                  /\ todo' = todo \ {v}
                  /\ pc' = IF todo' = {} THEN "commit" ELSE "lookup"
             ELSE AfterDbFailure
    /\ UNCHANGED <<query, language, top_k, include_metadata, contexts, other_langs, queried, result>>
    /\ UNCHANGED <<chunkVars, storeVars, indexerVars, handleVars, inletVars>>

\* database.py line 71: the commit when the with block is left.
Commit ==
    /\ pc = "commit"
    /\ \E out \in DbOutcomes :
          /\ dbLog' = Append(dbLog, [op |-> "commit", vote_id |-> "", ok |-> out = "ok"])
          /\ IF out = "ok"
             THEN pc' = "format" /\ UNCHANGED <<metadata, todo>>
             ELSE AfterDbFailure
    /\ UNCHANGED <<query, language, top_k, include_metadata, contexts, other_langs, queried, result>>
    /\ UNCHANGED <<chunkVars, storeVars, indexerVars, handleVars, inletVars>>

\* Lines 225-235: format the context and return the result.
FormatAndReturn ==
    /\ pc = "format"
    /\ result' = <<RagResult(query, language, contexts, metadata)>>
    /\ pc' = "done"
    /\ UNCHANGED <<query, language, top_k, include_metadata, contexts, other_langs,
                   queried, todo, metadata, dbLog>>
    /\ UNCHANGED <<chunkVars, storeVars, indexerVars, handleVars, inletVars>>

\* An index call that never answers.  HttpClient is built from host and port
\* alone (vector_store.py lines 31-34) and collection.query is called without
\* a timeout (lines 125-130); retrieve_context waits inside the call (rag.py
\* lines 47-51) and no other statement of the program runs for this request.
IndexHangs ==
    /\ pc \in {"primary", "fallback"}
    /\ pc = "fallback" => other_langs # <<>>
    /\ top_k - Len(contexts) >= 1       \* a request the index accepts
    /\ pc' = "blocked"
    /\ UNCHANGED <<query, language, top_k, include_metadata, contexts, other_langs,
                   queried, todo, metadata, dbLog, result>>
    /\ UNCHANGED <<chunkVars, storeVars, indexerVars, handleVars, inletVars>>

(***************************************************************************)
(* Part 4.  scripts/index_brochures.py                                     *)
(***************************************************************************)

\* The number of runs of the indexing script.
MaxPasses == 2
\* The most chunks chunk_text cuts from one brochure text.
MaxChunksPerText == 2

\* The language keys of brochure_texts, in the order of the dict.
BrochureLangs == <<"de", "fr">>
\* The titles an initiative can carry in the database.
Titles == {"t1", "t2"}
\* session.query(Initiative).all(): the initiatives, in the order of the table.
Initiatives == <<"v1", "v2">>

\* A brochure text stands for the number of chunks chunk_text cuts from it,
\* which is a function of the text (and of the settings): 0 for a missing,
\* empty or blank text.
BrochureTexts == [{BrochureLangs[i] : i \in 1..Len(BrochureLangs)} -> 0..MaxChunksPerText]

\* embeddings.py line 200: chunk_id = f"{vote_id}_{lang}_{idx}"
ChunkId(v, lang, idx) == <<v, lang, idx>>

\* embeddings.py lines 194-201 and index_brochures.py lines 65-75: the entries
\* of one brochure text of n chunks, with the metadata of the pass.
RECURSIVE TextEntries(_, _, _, _)
TextEntries(v, lang, n, title) ==
    IF n = 0 THEN <<>>
    ELSE Append(TextEntries(v, lang, n - 1, title),
                [chunk_id         |-> ChunkId(v, lang, n - 1),
                 vote_id          |-> v,
                 language         |-> lang,
                 chunk_index      |-> n - 1,
                 initiative_title |-> title])

\* prepare_brochure_for_indexing (embeddings.py lines 186-203) and lines
\* 65-75 of the script: the entries of an initiative, language by language.
RECURSIVE BrochureEntries(_, _, _, _)
BrochureEntries(v, langs, bt, title) ==
    IF langs = <<>> THEN <<>>
    ELSE TextEntries(v, Head(langs), bt[Head(langs)], title)
         \o BrochureEntries(v, Tail(langs), bt, title)

\* The ids a sequence of entries carries.
Ids(entries) == {entries[i].chunk_id : i \in 1..Len(entries)}

\* collection.add (vector_store.py lines 81-94), which is ChromaDB's add, not
\* its upsert.  The call can fail for want of the service.  When an id of the
\* batch is already stored, add either raises a duplicate-id error and stores
\* nothing, or leaves the stored entry as it is and stores the new ids only,
\* depending on the version of the library; it never replaces a stored entry.
CollectionAdd(coll, batch) ==
    LET fresh == SelectSeq(batch, LAMBDA e : e.chunk_id \notin Ids(coll))
    IN  {[kind |-> "unavailable", collection |-> coll]} \cup
        IF Ids(batch) \cap Ids(coll) = {}
        THEN {[kind |-> "ok", collection |-> coll \o batch]}
        ELSE {[kind |-> "duplicate_error", collection |-> coll],
              [kind |-> "ignored", collection |-> coll \o fresh]}

\* What embedding_model.encode (lines 79-87) can do: complete or raise.
EncodeOutcomes == {"ok", "raise"}

\* Before any run of the script.
InitIndexerVars ==
    /\ brochures \in [{Initiatives[i] : i \in 1..Len(Initiatives)} -> BrochureTexts]
    /\ titles \in [{Initiatives[i] : i \in 1..Len(Initiatives)} -> Titles]
    /\ collection = <<>>
    /\ ipass = 0
    /\ itodo = <<>>
    /\ ilog = <<>>

IdleIndexerVars ==
    /\ brochures = [v \in {Initiatives[i] : i \in 1..Len(Initiatives)} |->
                       [l \in {BrochureLangs[i] : i \in 1..Len(BrochureLangs)} |-> 0]]
    /\ titles = [v \in {Initiatives[i] : i \in 1..Len(Initiatives)} |-> "t1"]
    /\ collection = <<>>
    /\ ipass = 0
    /\ itodo = <<>>
    /\ ilog = <<>>

\* An entry of the history ilog.
Logged(v, outcome, add) ==
    [pass |-> ipass, vote_id |-> v, outcome |-> outcome, add |-> add]

\* The script is run (lines 25-40): it reads the initiatives.  The brochure
\* texts are those of the run before; a title may have been edited since.
StartPass ==
    /\ ipass < MaxPasses
    /\ itodo = <<>>
    /\ ipass' = ipass + 1
    /\ itodo' = Initiatives
    /\ titles' \in [{Initiatives[i] : i \in 1..Len(Initiatives)} -> Titles]
    /\ UNCHANGED <<brochures, collection, ilog>>

\* Lines 42-104: one iteration of the loop over the initiatives.
IndexInitiative ==
    /\ itodo # <<>>
    /\ itodo' = Tail(itodo)
    /\ LET v     == Head(itodo)
           batch == BrochureEntries(v, BrochureLangs, brochures[v], titles[v])
       IN  IF batch = <<>>
           THEN /\ ilog' = Append(ilog, Logged(v, "skipped", "none"))
                /\ UNCHANGED collection
           ELSE \E enc \in EncodeOutcomes :
                  IF enc = "raise"
                  THEN /\ ilog' = Append(ilog, Logged(v, "embedding_failed", "none"))
                       /\ UNCHANGED collection
                  ELSE \E r \in CollectionAdd(collection, batch) :
                         /\ collection' = r.collection
                         /\ ilog' = Append(ilog,
                               Logged(v, IF r.kind \in {"ok", "ignored"}
                                         THEN "indexed" ELSE "indexing_failed", r.kind))
    /\ UNCHANGED <<brochures, titles, ipass>>

(***************************************************************************)
(* Part 5.  The process-wide handles: get_vector_store, get_rag_pipeline   *)
(***************************************************************************)

\* Neither get_vector_store nor get_rag_pipeline takes a lock.  Requests
\* served on threads of their own are interleaved between any two statements
\* (the connection, the collection call and the model load all wait on I/O);
\* requests served one after the other are the interleavings in which each
\* request runs to its end before the next starts.

\* The requests in flight.
MaxRequests == 2
Requests == 1..MaxRequests

\* What a call to a collaborator at start-up can do.
StartupOutcomes == {"ok", "raise"}

\* VectorStore.__init__ (vector_store.py lines 19-23) after a successful
\* _connect: client is set, collection is None.
NewVectorStore == [collection |-> FALSE]

\* RAGPipeline.__init__ (rag.py lines 20-22).
NewRagPipeline(store) == [vector_store |-> store]

\* An entry of the history tlog.
Event(t, event, store) ==
    [request     |-> t,
     event       |-> event,
     store       |-> store,
     \* whether the store's collection is set when the event happens
     initialized |-> store # 0 /\ stores[store].collection]

InitHandleVars ==
    /\ g_vector_store = 0
    /\ g_rag_pipeline = 0
    /\ stores = <<>>
    /\ pipelines = <<>>
    /\ tpc = [t \in Requests |-> "rag245"]
    /\ tstore = [t \in Requests |-> 0]
    /\ tpipe = [t \in Requests |-> 0]
    /\ tlog = <<>>

IdleHandleVars ==
    /\ g_vector_store = 0
    /\ g_rag_pipeline = 0
    /\ stores = <<>>
    /\ pipelines = <<>>
    /\ tpc = [t \in Requests |-> "done"]
    /\ tstore = [t \in Requests |-> 0]
    /\ tpipe = [t \in Requests |-> 0]
    /\ tlog = <<>>

\* rag.py line 245: if _rag_pipeline is None.  When it is, line 246 enters
\* RAGPipeline.__init__, whose line 21 calls get_vector_store.
CheckPipeline(t) ==
    /\ tpc[t] = "rag245"
    /\ tpc' = [tpc EXCEPT ![t] = IF g_rag_pipeline = 0 THEN "vs201" ELSE "rag247"]
    /\ UNCHANGED <<g_vector_store, g_rag_pipeline, stores, pipelines, tstore, tpipe, tlog>>

\* vector_store.py line 201: if _vector_store is None.
CheckStore(t) ==
    /\ tpc[t] = "vs201"
    /\ tpc' = [tpc EXCEPT ![t] = IF g_vector_store = 0 THEN "vs202" ELSE "vs204"]
    /\ UNCHANGED <<g_vector_store, g_rag_pipeline, stores, pipelines, tstore, tpipe, tlog>>

\* vector_store.py line 202: _vector_store = VectorStore().  _connect raises
\* when the index is unreachable (lines 40-42), and the exception leaves
\* get_vector_store, RAGPipeline.__init__ and get_rag_pipeline, none of which
\* has a handler; otherwise the new instance is bound to the global.
Construct(t) ==
    /\ tpc[t] = "vs202"
    /\ \E out \in StartupOutcomes :
          IF out = "ok"
          THEN /\ stores' = Append(stores, NewVectorStore)
               /\ g_vector_store' = Len(stores) + 1
               /\ tpc' = [tpc EXCEPT ![t] = "vs203"]
               /\ tlog' = tlog
          ELSE /\ tlog' = Append(tlog, Event(t, "connect_failed", 0))
               /\ tpc' = [tpc EXCEPT ![t] = "raised"]
               /\ UNCHANGED <<stores, g_vector_store>>
    /\ UNCHANGED <<g_rag_pipeline, pipelines, tstore, tpipe>>

\* vector_store.py line 203: _vector_store.get_or_create_collection(), on the
\* instance the global names now.  It sets collection (lines 50-55) or raises
\* (lines 57-59); the global keeps the instance either way.
CreateCollection(t) ==
    /\ tpc[t] = "vs203"
    /\ \E out \in StartupOutcomes :
          IF out = "ok"
          THEN /\ stores' = [stores EXCEPT ![g_vector_store].collection = TRUE]
               /\ tpc' = [tpc EXCEPT ![t] = "vs204"]
               /\ tlog' = tlog
          ELSE /\ tlog' = Append(tlog, Event(t, "collection_failed", g_vector_store))
               /\ tpc' = [tpc EXCEPT ![t] = "raised"]
               /\ stores' = stores
    /\ UNCHANGED <<g_vector_store, g_rag_pipeline, pipelines, tstore, tpipe>>

\* vector_store.py line 204 and rag.py line 21: return _vector_store, kept as
\* self.vector_store.
ReturnStore(t) ==
    /\ tpc[t] = "vs204"
    /\ tstore' = [tstore EXCEPT ![t] = g_vector_store]
    /\ tlog' = Append(tlog, Event(t, "store_returned", g_vector_store))
    /\ tpc' = [tpc EXCEPT ![t] = "rag22"]
    /\ UNCHANGED <<g_vector_store, g_rag_pipeline, stores, pipelines, tpipe>>

\* rag.py line 22 and line 246: get_embedding_model loads the model or raises
\* (embeddings.py lines 45-47); then _rag_pipeline = RAGPipeline().
InitPipeline(t) ==
    /\ tpc[t] = "rag22"
    /\ \E out \in StartupOutcomes :
          IF out = "ok"
          THEN /\ pipelines' = Append(pipelines, NewRagPipeline(tstore[t]))
               /\ g_rag_pipeline' = Len(pipelines) + 1
               /\ tpc' = [tpc EXCEPT ![t] = "rag247"]
               /\ tlog' = tlog
          ELSE /\ tlog' = Append(tlog, Event(t, "embedding_failed", 0))
               /\ tpc' = [tpc EXCEPT ![t] = "raised"]
               /\ UNCHANGED <<pipelines, g_rag_pipeline>>
    /\ UNCHANGED <<g_vector_store, stores, tstore, tpipe>>

\* rag.py line 247: return _rag_pipeline.
ReturnPipeline(t) ==
    /\ tpc[t] = "rag247"
    /\ tpipe' = [tpipe EXCEPT ![t] = g_rag_pipeline]
    /\ tpc' = [tpc EXCEPT ![t] = "query"]
    /\ UNCHANGED <<g_vector_store, g_rag_pipeline, stores, pipelines, tstore, tlog>>

\* What retrieve_context gets from VectorStore.query on store s.  With
\* collection None, line 122 raises ValueError, which the handler of
\* retrieve_context (rag.py lines 75-77) turns into the empty list; otherwise
\* the index is asked.
QueryAnswer(s) == IF stores[s].collection THEN "index" ELSE "empty"

\* main.py line 169: the request's query, one retrieve_context call.
QueryStore(t) ==
    /\ tpc[t] = "query"
    /\ LET s == pipelines[tpipe[t]].vector_store
       IN  tlog' = Append(tlog, Event(t, "query", s) @@ [answer |-> QueryAnswer(s)])
    /\ tpc' = [tpc EXCEPT ![t] = "done"]
    /\ UNCHANGED <<g_vector_store, g_rag_pipeline, stores, pipelines, tstore, tpipe>>

NextHandle ==
    \E t \in Requests :
       \/ CheckPipeline(t)
       \/ CheckStore(t)
       \/ Construct(t)
       \/ CreateCollection(t)
       \/ ReturnStore(t)
       \/ InitPipeline(t)
       \/ ReturnPipeline(t)
       \/ QueryStore(t)

(***************************************************************************)
(* Part 6.  pipeline.py: SwissVotingPipeline.inlet, and prompts.py          *)
(***************************************************************************)

\* Strings that are searched are sequences of characters.
UpperCase == <<"A", "B", "C", "D", "E", "F", "G", "H", "I", "J", "K", "L", "M", "N", "O", "P", "Q", "R", "S", "T", "U", "V", "W", "X", "Y", "Z">>
LowerCase == <<"a", "b", "c", "d", "e", "f", "g", "h", "i", "j", "k", "l", "m", "n", "o", "p", "q", "r", "s", "t", "u", "v", "w", "x", "y", "z">>
\* str.lower(), character by character.
LowerChar(c) ==
    IF \E i \in 1..Len(UpperCase) : UpperCase[i] = c
    THEN LowerCase[CHOOSE i \in 1..Len(UpperCase) : UpperCase[i] = c]
    ELSE c
Lower(str) == [i \in 1..Len(str) |-> LowerChar(str[i])]
\* keyword in str
Contains(keyword, str) ==
    \E i \in 0..(Len(str) - Len(keyword)) : SubSeq(str, i + 1, i + Len(keyword)) = keyword
\* any(keyword in str for keyword in keywords)
AnyIn(keywords, str) == \E k \in 1..Len(keywords) : Contains(keywords[k], str)

\* pipeline.py lines 117-127.
rag_keywords ==
    <<<<"i", "n", "i", "t", "i", "a", "t", "i", "v", "e">>,
      <<"a", "b", "s", "t", "i", "m", "m", "u", "n", "g">>,
      <<"v", "o", "l", "k", "s", "i", "n", "i", "t", "i", "a", "t", "i", "v", "e">>,
      <<"v", "o", "t", "a", "t", "i", "o", "n">>,
      <<"v", "o", "t", "e">>,
      <<"r", "e", "f", "e", "r", "e", "n", "d", "u", "m">>,
      <<"i", "n", "i", "t", "i", "a", "t", "i", "v", "e">>,
      <<"v", "o", "t", "a", "z", "i", "o", "n", "e">>,
      <<"w", "a", "s", " ", "i", "s", "t">>,
      <<"w", "o", "r", "u", "m", " ", "g", "e", "h", "t">>,
      <<"e", "r", "k", "l", "ä", "r", "e">>,
      <<"q", "u", "'", "e", "s", "t", "-", "c", "e">>,
      <<"e", "x", "p", "l", "i", "q", "u", "e", "r">>,
      <<"c", "h", "e", " ", "c", "o", "s", "a">>,
      <<"s", "p", "i", "e", "g", "a", "r", "e">>,
      <<"a", "r", "g", "u", "m", "e", "n", "t", "e">>,
      <<"a", "r", "g", "u", "m", "e", "n", "t", "s">>,
      <<"a", "r", "g", "o", "m", "e", "n", "t", "i">>,
      <<"p", "r", "o">>,
      <<"c", "o", "n", "t", "r", "a">>,
      <<"p", "o", "u", "r">>,
      <<"c", "o", "n", "t", "r", "e">>,
      <<"p", "o", "s", "i", "t", "i", "o", "n">>,
      <<"e", "m", "p", "f", "e", "h", "l", "u", "n", "g">>,
      <<"r", "e", "c", "o", "m", "m", "a", "n", "d", "a", "t", "i", "o", "n">>>>

\* _should_use_rag (pipeline.py lines 114-129).
ShouldUseRag(q) == AnyIn(rag_keywords, Lower(q))

\* prompts.py lines 197 and 201: the French and the Italian indicators.
FrenchIndicators ==
    <<<<"q", "u", "e", "l", "l", "e">>,
      <<"q", "u", "e", "l">>,
      <<"q", "u", "e", "l", "s">>,
      <<"q", "u", "e", "l", "l", "e", "s">>,
      <<"q", "u", "'", "e", "s", "t", "-", "c", "e">>,
      <<"v", "o", "t", "a", "t", "i", "o", "n">>>>
ItalianIndicators ==
    <<<<"q", "u", "a", "l", "e">>,
      <<"q", "u", "a", "l", "i">>,
      <<"c", "h", "e", " ", "c", "o", "s", "a">>,
      <<"v", "o", "t", "a", "z", "i", "o", "n", "e">>>>

\* detect_language (prompts.py lines 194-205).
DetectLanguage(str) ==
    IF AnyIn(FrenchIndicators, Lower(str)) THEN "fr"
    ELSE IF AnyIn(ItalianIndicators, Lower(str)) THEN "it"
    ELSE "de"

\* Most messages a request body holds.
MaxMessages == 2
Roles == {"user", "assistant", "system"}
\* The message texts tried: empty, without keyword, with a keyword in upper
\* case, French without keyword, Italian with a keyword.
MessageTexts ==
    {<<>>,
     <<"h", "i">>,
     <<"V", "o", "t", "e", "?">>,
     <<"q", "u", "e", "l">>,
     <<"c", "h", "e", " ", "c", "o", "s", "a">>}
\* The content of a message: the context block put before the text (none in
\* a message of the request) and the text, a sequence of strings.
Content(context, str) == [context |-> context, text |-> str]
Messages == [role : Roles, content : {Content(<<>>, t) : t \in MessageTexts}]
\* A request body: the key "messages" may be missing (has_messages FALSE).
Bodies ==
    {[has_messages |-> h, messages |-> m] :
        h \in BOOLEAN, m \in UNION {[1..n -> Messages] : n \in 0..MaxMessages}}

\* body.get("messages", []) (line 40)
MessagesOf(b) == IF b.has_messages THEN b.messages ELSE <<>>

\* The chunk and the metadata the RAG results tried are built from.
InletChunk == [vote_id |-> "v1", language |-> "de"]
\* What query_with_context(query, language, top_k=5, include_metadata=True)
\* can return (rag.py lines 228-235): no context, or one context with or
\* without its metadata.
RagResults(q, lang) ==
    {RagResult(q, lang, <<>>, EmptyMap),
     RagResult(q, lang, <<Context(q, InletChunk)>>, EmptyMap),
     RagResult(q, lang, <<Context(q, InletChunk)>>, "v1" :> InitiativeMetadata("v1"))}

\* prompts.py lines 172-179: the content of the user message, the context
\* followed by the question, or the question alone.
UserContent(q, res) ==
    IF res # <<>> /\ res[1].contexts # <<>>
    THEN Content(PromptContext(res[1]), q)
    ELSE Content(<<>>, q)

\* create_chat_prompt (prompts.py lines 160-181); res is <<>> for None.
CreateChatPrompt(q, res, lang) ==
    <<[role |-> "system", content |-> Content(<<>>, <<GetSystemPrompt(lang)>>)],
      [role |-> "user", content |-> UserContent(q, res)]>>

\* Line 77: body["messages"] = enriched_messages
Enrich(b, msgs) == [has_messages |-> TRUE, messages |-> msgs]

InletHandlerPropagates == "raised"
\* Lines 80-82: the handler logs and falls through to return body.
InletHandler == "done"

\* What a call made from the try block can do.
CallOutcomes == {"ok", "raise"}

InitInletVars ==
    /\ inlet_body \in Bodies
    /\ inlet_body0 = inlet_body
    /\ user_query = <<>>
    /\ inlet_language = "de"
    /\ rag_result = <<>>
    /\ inlet_log = <<>>
    /\ inlet_pc = "entry"

IdleInletVars ==
    /\ inlet_body = [has_messages |-> FALSE, messages |-> <<>>]
    /\ inlet_body0 = inlet_body
    /\ user_query = <<>>
    /\ inlet_language = "de"
    /\ rag_result = <<>>
    /\ inlet_log = <<>>
    /\ inlet_pc = "done"

\* Lines 40-58: the early returns, the language and the decision to use RAG.
InletEntry ==
    /\ inlet_pc = "entry"
    /\ LET messages == MessagesOf(inlet_body)
       IN  IF messages = <<>> \/ messages[Len(messages)].role # "user"
           THEN /\ inlet_pc' = "done"
                /\ UNCHANGED <<user_query, inlet_language>>
           ELSE /\ user_query' = messages[Len(messages)].content.text
                /\ inlet_language' = DetectLanguage(user_query')
                /\ inlet_pc' = IF ShouldUseRag(user_query') THEN "rag" ELSE "done"
    /\ UNCHANGED <<inlet_body, inlet_body0, rag_result, inlet_log>>

\* Lines 62-68 and 80-82: query_with_context returns a result or raises.
InletRag ==
    /\ inlet_pc = "rag"
    /\ \E out \in CallOutcomes :
          /\ inlet_log' = Append(inlet_log, [call |-> "query_with_context", ok |-> out = "ok"])
          /\ IF out = "ok"
             THEN /\ \E res \in RagResults(user_query, inlet_language) : rag_result' = <<res>>
                  /\ inlet_pc' = "prompt"
             ELSE /\ rag_result' = rag_result
                  /\ inlet_pc' = InletHandler
    /\ UNCHANGED <<inlet_body, inlet_body0, user_query, inlet_language>>

\* Lines 70-78 and 80-82: create_chat_prompt returns the messages, which
\* replace those of the body, or raises.
InletPrompt ==
    /\ inlet_pc = "prompt"
    /\ \E out \in CallOutcomes :
          /\ inlet_log' = Append(inlet_log, [call |-> "create_chat_prompt", ok |-> out = "ok"])
          /\ IF out = "ok"
             THEN /\ inlet_body' = Enrich(inlet_body, CreateChatPrompt(user_query, rag_result,
                                                                    inlet_language))
                  /\ inlet_pc' = "done"
             ELSE /\ inlet_body' = inlet_body
                  /\ inlet_pc' = InletHandler
    /\ UNCHANGED <<inlet_body0, user_query, inlet_language, rag_result>>

NextInlet == InletEntry \/ InletRag \/ InletPrompt

(***************************************************************************)
(* The specifications                                                      *)
(***************************************************************************)

Init ==
    IdleChunkVars /\ IdleIndexerVars /\ InitRagVars /\ IdleHandleVars /\ IdleInletVars

Next ==
    \/ PrimaryQuery
    \/ FallbackQuery
    \/ ReturnContexts
    \/ Lookup
    \/ Commit
    \/ FormatAndReturn

\* One call of query_with_context.
Spec == Init /\ [][Next]_vars

\* The same call of query_with_context, for the properties of the context
\* text it assembles.
SpecFormat == Init /\ [][Next]_vars

NextTimeout == Next \/ IndexHangs

\* One call of query_with_context against an index that may fail to answer.
SpecTimeout == Init /\ [][NextTimeout]_vars

InitChunk ==
    IdleChunkVars /\ IdleIndexerVars /\ IdleRagVars /\ IdleHandleVars /\ IdleInletVars

NextChunkAll == NextChunk /\ UNCHANGED <<storeVars, indexerVars, ragVars, handleVars, inletVars>>

\* One call of chunk_text.
SpecChunk == InitChunk /\ [][NextChunkAll]_vars

NextChunkLong ==
    (ChunkCallLong \/ ChunkEntry \/ ChunkStep \/ ChunkReturn)
       /\ UNCHANGED <<storeVars, indexerVars, ragVars, handleVars, inletVars>>

\* One call of chunk_text on a longer text.
SpecChunkLong == InitChunk /\ [][NextChunkLong]_vars

InitIndexer ==
    IdleChunkVars /\ InitIndexerVars /\ IdleRagVars /\ IdleHandleVars /\ IdleInletVars

NextIndexer ==
    (StartPass \/ IndexInitiative) /\ UNCHANGED <<chunkVars, storeVars, ragVars, handleVars, inletVars>>

\* Runs of scripts/index_brochures.py, one after the other.
SpecIndexer == InitIndexer /\ [][NextIndexer]_vars

InitHandle ==
    IdleChunkVars /\ IdleIndexerVars /\ IdleRagVars /\ InitHandleVars /\ IdleInletVars

NextHandleAll ==
    NextHandle /\ UNCHANGED <<chunkVars, storeVars, indexerVars, ragVars, inletVars>>

\* Requests in flight that fetch the pipeline and query the index.
SpecHandle == InitHandle /\ [][NextHandleAll]_vars

InitInlet ==
    IdleChunkVars /\ IdleIndexerVars /\ IdleRagVars /\ IdleHandleVars /\ InitInletVars

NextInletAll ==
    NextInlet /\ UNCHANGED <<chunkVars, storeVars, indexerVars, ragVars, handleVars>>

\* One call of inlet.
SpecInlet == InitInlet /\ [][NextInletAll]_vars

\* The interpreter keeps running the loop: a call that has not returned takes
\* its next step.
FairSpecChunk == SpecChunk /\ WF_vars(NextChunkAll)

(***************************************************************************)
(* The properties                                                          *)
(***************************************************************************)

\* retrieve_with_fallback has returned (line 120).
Retrieved == pc \in {"lookup", "commit", "format", "done"}
\* query_with_context has returned.
Done == pc = "done"
Returned == result[1]
Last(s) == s[Len(s)]
IsSorted(ctxs) ==
    \A i, j \in 1..Len(ctxs) : i < j => ctxs[i].similarity >= ctxs[j].similarity
\* The fallback sub-queries made: every index call after the first.
FallbackCalls == {i \in 1..Len(queried) : i > 1}
\* The supported languages other than the requested one.
OtherSupported == {SupportedLangs[i] : i \in 1..Len(SupportedLangs)} \ {language}

\* The configuration the chunker's contract asks for.
ValidConfig == 0 <= overlap /\ overlap < chunk_size

\* C1: for every text and every 0 <= overlap < chunk_size, chunk_text
\* terminates and returns a finite list of chunks.  The text and the two
\* parameters never change during a call, so what an iteration of the loop
\* does is a function of start alone: the call can only terminate if no
\* iteration leaves start where it found it (an iteration that does is
\* repeated for ever, appending the same chunk each time).
C1_ChunkTextTerminates == [][(ChunkStep /\ ValidConfig) => start' # start]_vars

\* C11: for every text and every 0 <= overlap < chunk_size, every iteration of
\* the loop makes forward progress: the next window starts strictly after the
\* current one, and never below 0.
C11_ForwardProgress ==
    [][(ChunkStep /\ ValidConfig) => (start' > start /\ start' >= 0)]_vars

\* The positions of the text (1-based) that window w holds.
Held(w) == {p \in 1..Len(text) : w.start < p /\ p <= w.end}
\* The character at position p occurs in the chunk of window w: the chunk is a
\* returned chunk and lies in the text, inside the window, over position p.
InChunk(p, w) ==
    /\ \E k \in 1..Len(chunks) : chunks[k] = w.chunk
    /\ \E j \in 1..Len(w.chunk) :
          /\ p - j + 1 \in Held(w) /\ p - j + Len(w.chunk) \in Held(w)
          /\ SubSeq(text, p - j + 1, p - j + Len(w.chunk)) = w.chunk

C13_NoEmptyChunk ==
    /\ \A k \in 1..Len(chunks) :
          chunks[k] # <<>> /\ \E j \in 1..Len(chunks[k]) : chunks[k][j] \notin Whitespace
    /\ (cpc = "done" /\ text = <<>>) => chunks = <<>>
\* A returned call that dropped a whitespace-only window and kept another
\* window's chunk.
C13_Witness ==
    /\ cpc = "done" /\ chunks # <<>>
    /\ \E i \in 1..Len(windows) :
          windows[i].chunk = <<>> /\ Held(windows[i]) # {}

\* C2: retrieve_with_fallback, and so the contexts of the result, never holds
\* more than top_k contexts, whatever the index answered.
C2_AtMostTopK ==
    /\ Retrieved => Len(contexts) <= top_k
    /\ Done => Len(Returned.contexts) <= top_k /\ Returned.num_contexts <= top_k
\* A call that returned top_k >= 1 contexts although an index call answered
\* with more results than it was asked for.
C2_Witness ==
    /\ Done /\ top_k >= 1 /\ Len(Returned.contexts) = top_k
    /\ \E i \in 1..Len(queried) : queried[i].returned > queried[i].n_results

\* C3 as stated: the contexts returned are sorted by non-increasing
\* similarity, fallback contexts included.
C3_SortedBySimilarity == Done => IsSorted(Returned.contexts)
\* C3 as amended: the contexts of one language are sorted by non-increasing
\* similarity among themselves (so the whole result is sorted when no fallback
\* context was appended).
C3_SortedWithinLanguage ==
    Done => \A i, j \in 1..Len(Returned.contexts) :
               (i < j /\ Returned.contexts[i].language = Returned.contexts[j].language)
               => Returned.contexts[i].similarity >= Returned.contexts[j].similarity
\* A result with two contexts of one language at different similarities,
\* followed by a fallback context.
C3_Witness ==
    /\ Done /\ Len(Returned.contexts) >= 3
    /\ Returned.contexts[1].language = Returned.contexts[2].language
    /\ Returned.contexts[1].similarity > Returned.contexts[2].similarity
    /\ Returned.contexts[3].language # Returned.contexts[1].language

\* C4: other languages are queried if and only if the primary query produced
\* fewer than top_k // 2 contexts; otherwise the result holds contexts of the
\* primary language only.
C4_FallbackIffInsufficient ==
    /\ pc = "fallback" => queried[1].got < top_k \div 2
    /\ Retrieved =>
          /\ (FallbackCalls # {}) <=> (queried[1].got < top_k \div 2)
          /\ queried[1].got >= top_k \div 2 =>
                \A i \in 1..Len(contexts) : contexts[i].language = language
\* The boundary: the primary query produced exactly top_k // 2 >= 1 contexts
\* and no other language was queried.
C4_Witness ==
    /\ Done /\ top_k >= 2 /\ queried[1].got = top_k \div 2
    /\ Len(queried) = 1 /\ Returned.num_contexts = top_k \div 2

\* What C5 concludes: the result holds a context of another language, and
\* every primary-language context precedes every fallback-language context.
C5_Conclusion ==
    /\ \E i \in 1..Len(Returned.contexts) : Returned.contexts[i].language # language
    /\ \A i, j \in 1..Len(Returned.contexts) :
          (Returned.contexts[i].language = language /\ Returned.contexts[j].language # language)
          => i < j
C6_UsableAnswer ==
    (Done /\ top_k >= 1 /\ Matching(language) = {}
          /\ (\E l \in OtherSupported : Matching(l) # {})
          /\ \A i \in 1..Len(queried) : queried[i].ok)
    => Returned.num_contexts >= 1

C8_AlwaysRagResult ==
    /\ pc # "raised"
    /\ pc \in {"primary", "fallback", "return", "lookup", "commit", "format", "done"}
    /\ pc = "fallback" => other_langs # <<>>
    /\ pc = "lookup" => todo # {}
    /\ Done =>
          /\ Len(result) = 1
          /\ DOMAIN Returned = {"query", "language", "contexts", "formatted_context",
                                "initiative_metadata", "num_contexts"}
          /\ Returned.query = query /\ Returned.language = language
          /\ Returned.num_contexts = Len(Returned.contexts)
\* A call that returned although an index call and a store operation raised.
C8_Witness ==
    /\ Done /\ Len(result) = 1
    /\ \E i \in 1..Len(queried) : ~queried[i].ok
    /\ \E i \in 1..Len(dbLog) : ~dbLog[i].ok

\* The store is unreachable: the first operation on it raised.
StoreUnreachable == dbLog # <<>> /\ ~dbLog[1].ok
\* C9: with the metadata store unreachable and at least one context retrieved,
\* query_with_context returns those contexts, a formatted context that holds
\* the text of each, and an empty initiative_metadata.
C9_DegradesWithoutMetadata ==
    (StoreUnreachable /\ pc \in {"done", "raised"}) =>
        /\ Done
        /\ Returned.contexts = contexts /\ Returned.contexts # <<>>
        /\ Returned.formatted_context # <<>>
        /\ Returned.formatted_context # Sentinel
        /\ \A i \in 1..Len(contexts) :
              \E k \in 1..Len(Returned.formatted_context) :
                 /\ Returned.formatted_context[k].kind = "text"
                 /\ Returned.formatted_context[k].body = contexts[i].text
        /\ Returned.initiative_metadata = EmptyMap
\* A call that returned two contexts with the store unreachable.
C9_Witness ==
    /\ Done /\ StoreUnreachable /\ Returned.num_contexts >= 2
    /\ Returned.initiative_metadata = EmptyMap

\* C10: if a store operation of get_initiative_metadata raises (a lookup, the
\* first or a later one, or the commit), the function does not raise and the
\* mapping it returns is empty.
C10_EmptyMappingOnFailure ==
    (pc \in {"format", "done", "raised"} /\ \E i \in 1..Len(dbLog) : ~dbLog[i].ok)
    => pc # "raised" /\ metadata = EmptyMap

\* The chunk a context was built from, and the distance the index gave it.
ChunkOf(ctx) == [vote_id |-> ctx.vote_id, language |-> ctx.language]
DistanceOf(ctx) == Distance(query, ChunkOf(ctx))
\* The states C14 is read in: retrieve_with_fallback is about to return all the
\* contexts it gathered, or query_with_context has returned.
Gathered == pc = "return" \/ Done
\* What C14 says besides the equation: the similarity lies in [0, 1] and a
\* larger distance never gives a larger similarity.
C14_RangeAndOrder ==
    /\ \A i \in 1..Len(contexts) :
          contexts[i].similarity >= 0 /\ contexts[i].similarity <= One
    /\ \A i, j \in 1..Len(contexts) :
          DistanceOf(contexts[i]) <= DistanceOf(contexts[j])
          => contexts[i].similarity >= contexts[j].similarity
\* C14 as stated: the similarity of every context equals 1 - min(distance, 1),
\* lies in [0, 1] and is non-increasing in the distance.
C14_SimilarityFromDistance ==
    Gathered =>
        /\ \A i \in 1..Len(contexts) :
              contexts[i].similarity = One - Min2(DistanceOf(contexts[i]), One)
        /\ C14_RangeAndOrder
\* C14 as amended: the similarity of every context equals 1 - min(distance, 1)
\* rounded to four decimal places, lies in [0, 1] and is non-increasing in the
\* distance.
C14_SimilarityRounded ==
    Gathered =>
        /\ \A i \in 1..Len(contexts) :
              LET exact == One - Min2(DistanceOf(contexts[i]), One)
              IN  /\ 2 * (contexts[i].similarity - exact) <= 10
                  /\ 2 * (exact - contexts[i].similarity) <= 10
                  /\ contexts[i].similarity % 10 = 0
        /\ C14_RangeAndOrder
\* A result with a context whose similarity was rounded up and one whose
\* distance exceeds 1.
C14_Witness ==
    /\ Done
    /\ \E i \in 1..Len(contexts) :
          contexts[i].similarity > One - Min2(DistanceOf(contexts[i]), One)
    /\ \E i \in 1..Len(contexts) :
          DistanceOf(contexts[i]) > One /\ contexts[i].similarity = 0

\* What pass p did with initiative v.
PassLog(p, v) ==
    ilog[CHOOSE i \in 1..Len(ilog) : ilog[i].pass = p /\ ilog[i].vote_id = v]
\* The entries of the collection stored under chunk_id id.
Stored(id) == {i \in 1..Len(collection) : collection[i].chunk_id = id}
\* C15: re-indexing is idempotent.  When a second pass runs over an initiative
\* the first pass indexed (same brochure texts, the embedding model and the
\* index service both available), the second pass is not skipped and does not
\* fail, and afterwards every chunk_id of the initiative has exactly one entry,
\* the one the second pass wrote.
C15_ReindexIdempotent ==
    (ipass = 2 /\ itodo = <<>>) =>
        \A v \in DOMAIN brochures :
            (/\ PassLog(1, v).outcome = "indexed" /\ PassLog(1, v).add = "ok"
             /\ PassLog(2, v).outcome # "embedding_failed"
             /\ PassLog(2, v).add # "unavailable")
            => /\ PassLog(2, v).outcome = "indexed"
               /\ \A id \in Ids(BrochureEntries(v, BrochureLangs, brochures[v], titles[v])) :
                     /\ Cardinality(Stored(id)) = 1
                     /\ \A i \in Stored(id) : collection[i].initiative_title = titles[v]

\* C16: called with the empty query string, retrieve_context and
\* query_with_context return zero contexts and do not raise, whatever the
\* index contains.
C16_EmptyQueryNoContexts ==
    query = "" =>
        /\ pc # "raised"
        /\ \A i \in 1..Len(queried) : queried[i].got = 0
        /\ Done => Returned.num_contexts = 0

\* The supported languages.
Supported == {SupportedLangs[i] : i \in 1..Len(SupportedLangs)}
\* C17: a request whose language is not de, fr or it raises no error and falls
\* back to de: for every top_k >= 1 the first supported language the index is
\* queried in is de (when no index call fails), and the system prompt chosen
\* is the German one.
C17_UnsupportedLanguageDefaultsToDe ==
    (language \notin Supported /\ top_k >= 1) =>
        /\ pc # "raised"
        /\ GetSystemPrompt(language) = SYSTEM_PROMPT_DE
        /\ (Done /\ \A i \in 1..Len(queried) : queried[i].ok) =>
              \E i \in 1..Len(queried) :
                 /\ queried[i].language = "de"
                 /\ \A j \in 1..(i - 1) : queried[j].language \notin Supported

\* C18: format_context_for_llm of the empty list is the sentinel, and whenever
\* query_with_context retrieves no context its formatted_context is exactly
\* the sentinel and its num_contexts is 0.
C18_SentinelWhenEmpty ==
    /\ FormatContextForLlm(<<>>) = Sentinel
    /\ (pc \in {"done", "raised"} /\ contexts = <<>>) =>
          /\ Done
          /\ Returned.contexts = <<>>
          /\ Returned.formatted_context = Sentinel
          /\ Returned.num_contexts = 0
\* A call for top_k >= 1 on an index that holds chunks of the requested
\* language returned no context (the index call raised).
C18_Witness ==
    /\ Done /\ top_k >= 1 /\ Matching(language) # {}
    /\ Returned.contexts = <<>> /\ Returned.formatted_context = Sentinel

\* The header lines and the chunk-text lines of an assembled text.
HeaderIdx(lines) == {k \in 1..Len(lines) : lines[k].kind = "header"}
TextIdx(lines) == {k \in 1..Len(lines) : lines[k].kind = "text"}
\* Line k stands under the header of vote_id v: that header is the last one
\* before it.
InGroup(lines, k, v) ==
    LET before == {h \in 1..(k - 1) : lines[h].kind = "header"}
    IN  before # {} /\ lines[Max(before)].vote_id = v
\* Where vote_id v first occurs in the context list.
FirstAt(ctxs, v) ==
    CHOOSE i \in 1..Len(ctxs) :
        ctxs[i].vote_id = v /\ \A j \in 1..(i - 1) : ctxs[j].vote_id # v
\* The line that carries the text of context i.
TextLineOf(lines, ctxs, i) == CHOOSE k \in TextIdx(lines) : lines[k].body = ctxs[i].text
\* What C19 says of an assembled text lines and the context list ctxs it was
\* made from.
Grouped(lines, ctxs) ==
    LET H     == HeaderIdx(lines)
        T     == TextIdx(lines)
        ids   == VoteIds(ctxs)
        first == [v \in ids |-> FirstAt(ctxs, v)]
        at    == [i \in 1..Len(ctxs) |-> TextLineOf(lines, ctxs, i)]
    IN  /\ \A v \in ids : Cardinality({h \in H : lines[h].vote_id = v}) = 1
        /\ \A h \in H : lines[h].vote_id \in ids
        /\ \A h1, h2 \in H :
              h1 < h2 => first[lines[h1].vote_id] < first[lines[h2].vote_id]
        /\ Cardinality(T) = Len(ctxs)
        /\ \A i \in 1..Len(ctxs) :
              Cardinality({k \in T : lines[k].body = ctxs[i].text}) = 1
        /\ \A i \in 1..Len(ctxs) : InGroup(lines, at[i], ctxs[i].vote_id)
        /\ \A i, j \in 1..Len(ctxs) :
              (i < j /\ ctxs[i].vote_id = ctxs[j].vote_id) => at[i] < at[j]

\* C19: in the assembled text (of format_context_for_llm and of
\* format_rag_context) each distinct vote_id has exactly one header, the groups
\* appear in the order in which their vote_id first occurs in the context list,
\* every context's text is emitted exactly once under its own group's header,
\* and within a group the texts keep their order.
C19_GroupedInFirstSeenOrder ==
    (Done /\ Returned.contexts # <<>>) =>
        \A lines \in {Returned.formatted_context, PromptContext(Returned)} :
            Grouped(lines, Returned.contexts)
\* A result whose contexts of one initiative are separated by a context of
\* another one.
C19_Witness ==
    /\ Done /\ Len(Returned.contexts) >= 3
    /\ Returned.contexts[1].vote_id = Returned.contexts[3].vote_id
    /\ Returned.contexts[1].vote_id # Returned.contexts[2].vote_id

\* The lines of kind kind under the header of v.
MetaIdx(lines, v, kind) ==
    {k \in 1..Len(lines) : lines[k].kind = kind /\ InGroup(lines, k, v)}
\* The text carries the field value as its line of kind kind under the header
\* of v when the field is present, and no such line when it is absent.
FieldEmitted(lines, v, kind, value) ==
    IF value = "" THEN MetaIdx(lines, v, kind) = {}
    ELSE /\ Cardinality(MetaIdx(lines, v, kind)) = 1
         /\ \A k \in MetaIdx(lines, v, kind) : lines[k].body = <<value>>
\* What C20 says of an assembled text lines made from ctxs and the metadata md.
MetadataEmitted(lines, ctxs, md) ==
    \A v \in VoteIds(ctxs) \cap DOMAIN md :
        LET parolen == md[v].parteiparolen
            shown   == Min2(5, Len(parolen))
            paroles == MetaIdx(lines, v, "parole")
            meta    == MetaIdx(lines, v, "position") \cup paroles
                       \cup MetaIdx(lines, v, "source")
            texts   == {t \in TextIdx(lines) : InGroup(lines, t, v)}
        IN  /\ FieldEmitted(lines, v, "position", md[v].position_bundesrat)
            /\ FieldEmitted(lines, v, "source", md[v].pdf_url)
            /\ Cardinality(paroles) = shown
            /\ \A k \in paroles :
                  lines[k].body = <<parolen[Cardinality({k2 \in paroles : k2 <= k})]>>
            /\ \A k \in meta : \A t \in texts : t < k

\* C20 as stated: for each group whose metadata is available, both the
\* formatted_context of the result and the prompt context contain, after the
\* group's chunk texts, the position of the Bundesrat, the first min(5, n) of
\* the n party positions in their stored order and no others, and the brochure
\* link, each when present.
C20_MetadataInAssembledText ==
    Done =>
        \A lines \in {Returned.formatted_context, PromptContext(Returned)} :
            MetadataEmitted(lines, Returned.contexts, Returned.initiative_metadata)
\* C20 as amended: the prompt context (format_rag_context) contains them; the
\* formatted_context of the result holds headers and chunk texts only.
C20_MetadataInPromptContext ==
    Done =>
        /\ \A lines \in {PromptContext(Returned)} :
              MetadataEmitted(lines, Returned.contexts, Returned.initiative_metadata)
        /\ \A k \in 1..Len(Returned.formatted_context) :
              Returned.formatted_context[k].kind \in {"sentinel", "header", "text", "blank"}
\* A result with the metadata of both initiatives: one with six party
\* positions, a position of the Bundesrat and a link, one with three party
\* positions and neither of the other two.
C20_Witness ==
    /\ Done
    /\ VoteIds(Returned.contexts) = {"v1", "v2"}
    /\ DOMAIN Returned.initiative_metadata = {"v1", "v2"}
    /\ Len(Returned.initiative_metadata["v1"].parteiparolen) > 5
    /\ Len(Returned.initiative_metadata["v2"].parteiparolen) < 5
    /\ Returned.initiative_metadata["v2"].pdf_url = ""

\* The events of the history that hand a store to a caller or use it.
Handed == {i \in 1..Len(tlog) : tlog[i].event \in {"store_returned", "query"}}
\* The failures of start-up logged before event i.
FailedBefore(i) ==
    {j \in 1..(i - 1) : tlog[j].event \in {"connect_failed", "collection_failed"}}
NoStartupFailure ==
    \A i \in 1..Len(tlog) :
       tlog[i].event \notin {"connect_failed", "collection_failed", "embedding_failed"}

\* C21: if connecting to the vector index or creating its collection fails,
\* get_vector_store raises to its caller, and no call to get_vector_store,
\* the failing one or any later one, returns a store whose collection is
\* uninitialized; a query is never attempted, and never silently answered
\* with zero contexts, on a partially initialized store.
C21_NoPartiallyInitializedStore ==
    /\ \A i \in 1..Len(tlog) :
          tlog[i].event \in {"connect_failed", "collection_failed"}
             => tpc[tlog[i].request] = "raised"
    /\ \A i \in Handed :
          FailedBefore(i) # {}
             => /\ tlog[i].initialized
                /\ tlog[i].event = "query" => tlog[i].answer # "empty"

\* C22: when several requests call get_rag_pipeline / get_vector_store
\* concurrently before the singleton exists, exactly one instance is
\* created, and no caller ever obtains the vector store in the window
\* between its construction and the creation of its collection.  Stated for
\* the runs in which no collaborator fails at start-up.
C22_SingletonUnderConcurrency ==
    NoStartupFailure =>
       /\ Len(stores) <= 1
       /\ Len(pipelines) <= 1
       /\ \A i \in Handed : tlog[i].event = "store_returned" => tlog[i].initialized

\* C23: no call to the vector index blocks a query indefinitely: if an index
\* call never responds, the sub-query is abandoned after a bounded wait and
\* treated as a failed sub-query, and query_with_context still eventually
\* returns a RagResult.  A request waiting on an index call that does not
\* answer must therefore have a step to take: the one that abandons the call.
C23_IndexCallAbandoned == pc = "blocked" => ENABLED NextTimeout

\* C24: nothing is retried inside the core: within one retrieve_with_fallback
\* call each language is queried at most once, a sub-query that failed is
\* never re-issued, and within one get_initiative_metadata call a failed
\* lookup is never repeated (the failure is the last operation on the store,
\* and no vote_id is looked up twice).
C24_NothingRetried ==
    /\ \A i, j \in 1..Len(queried) :
          i < j => queried[i].language # queried[j].language
    /\ \A i \in 1..Len(dbLog) : ~dbLog[i].ok => i = Len(dbLog)
    /\ \A i, j \in 1..Len(dbLog) :
          (i < j /\ dbLog[i].op = "lookup" /\ dbLog[j].op = "lookup")
             => dbLog[i].vote_id # dbLog[j].vote_id

\* C24 witness: a call has returned in which an index call failed and another
\* language was queried after it, and in which a lookup failed after an
\* earlier lookup succeeded.
C24_Witness ==
    /\ Done
    /\ \E i \in 1..Len(queried) : ~queried[i].ok /\ i < Len(queried)
    /\ Len(dbLog) >= 2
    /\ dbLog[Len(dbLog)].op = "lookup" /\ ~dbLog[Len(dbLog)].ok

\* The lookups of vote_id v made so far.
LookupsOf(v) == {i \in 1..Len(dbLog) : dbLog[i].op = "lookup" /\ dbLog[i].vote_id = v}
NoLookupFailed == \A i \in 1..Len(dbLog) : dbLog[i].op = "lookup" => dbLog[i].ok
\* get_initiative_metadata was called and has returned.
MetadataReturned == include_metadata /\ contexts # <<>> /\ pc \in {"format", "done"}

\* C25 as stated: get_initiative_metadata performs exactly one store lookup
\* per distinct vote_id of its input and, when no lookup fails, the key set
\* of the returned mapping equals the set of requested ids that exist in the
\* store; ids missing from the store cause no error.
C25_ExactlyOneLookupPerId ==
    MetadataReturned =>
       /\ \A v \in VoteIds(contexts) : Cardinality(LookupsOf(v)) = 1
       /\ NoLookupFailed => DOMAIN metadata = VoteIds(contexts) \cap dbRows

\* C25 as amended: get_initiative_metadata performs at most one store lookup
\* per distinct vote_id of its input, and none for any other id; when no
\* lookup fails it performs exactly one per distinct vote_id, and the key set
\* of the returned mapping equals the set of requested ids that exist in the
\* store: ids missing from the store are absent and cause no error.
C25_AtMostOneLookupPerId ==
    /\ \A v \in Votes : Cardinality(LookupsOf(v)) <= 1
    /\ pc # "raised"
    /\ MetadataReturned =>
          /\ \A v \in Votes \ VoteIds(contexts) : LookupsOf(v) = {}
          /\ NoLookupFailed =>
                /\ \A v \in VoteIds(contexts) : Cardinality(LookupsOf(v)) = 1
                /\ DOMAIN metadata = VoteIds(contexts) \cap dbRows

\* C25 witness: a call has returned whose contexts name one vote_id twice and
\* two vote_ids in all, one of them missing from the store, and no lookup
\* failed.
C25_Witness ==
    /\ Done /\ MetadataReturned /\ NoLookupFailed
    /\ Cardinality(VoteIds(contexts)) = 2
    /\ Len(contexts) > 2
    /\ Cardinality(dbRows) = 1

\* The chunk c is the whitespace-stripped form of a contiguous slice of the
\* text that is at most size characters long.
StrippedSlice(c, size) ==
    \E a \in 0..Len(text) : \E b \in a..Min2(a + size, Len(text)) :
       c = Strip(SubSeq(text, a + 1, b))

\* C26: every chunk returned by chunk_text is a bounded substring of the
\* input: it is the whitespace-stripped form of a contiguous slice of the text
\* and its length is at most chunk_size, for every text and every
\* 0 <= overlap < chunk_size.
C26_ChunkIsBoundedSubstring ==
    ValidConfig =>
       \A k \in 1..Len(chunks) :
          /\ Len(chunks[k]) <= chunk_size
          /\ StrippedSlice(chunks[k], chunk_size)

\* C26 witness: a returned call with a chunk as long as chunk_size and a chunk
\* that lost whitespace to strip().
C26_Witness ==
    /\ cpc = "done" /\ ValidConfig /\ chunk_size >= 2
    /\ \E i \in 1..Len(windows) : Len(windows[i].chunk) = chunk_size
    /\ \E i \in 1..Len(windows) :
          /\ windows[i].chunk # <<>>
          /\ Len(windows[i].chunk) < Len(Slice(text, windows[i].start, windows[i].end))

Terminators == {".", "!", "?"}
\* The 0-based positions of the text from a up to, not including, b that hold
\* a sentence terminator.
TerminatorsIn(a, b) ==
    {p \in 0..(Len(text) - 1) : a <= p /\ p < b /\ text[p + 1] \in Terminators}
\* Where C28 puts the end of the window that starts at s, when the
\* terminators inside the window are T.
ClaimedEnd(s, T) ==
    IF s + chunk_size < Len(text) /\ T # {} /\ Max(T) > s
    THEN Max(T) + 1
    ELSE s + chunk_size
\* "Inside the window" read as the positions of the text that lie in
\* [s, s + chunk_size), or as the positions of the slice text[s:s + chunk_size].
InInterval(s) == TerminatorsIn(s, s + chunk_size)
InSlice(s) == TerminatorsIn(PyIdx(s, Len(text)), PyIdx(s + chunk_size, Len(text)))

\* C28: for a window [start, start + chunk_size) that ends before the text
\* end: if the last '.', '!' or '?' inside the window is at a position
\* p > start, the chunk ends at p + 1; if the window holds no terminator, or
\* only one at position start, the chunk ends at the hard boundary
\* start + chunk_size.  A window that reaches the text end is never shortened
\* at a terminator.  Stated so that either reading of "inside the window"
\* satisfies it.
C28_CutAtLastTerminator ==
    ValidConfig =>
       \A i \in 1..Len(windows) :
          \/ windows[i].end = ClaimedEnd(windows[i].start, InInterval(windows[i].start))
          \/ windows[i].end = ClaimedEnd(windows[i].start, InSlice(windows[i].start))

\* The number of contexts the first n index calls brought in.
RECURSIVE GatheredBy(_)
GatheredBy(n) == IF n = 0 THEN 0 ELSE queried[n].got + GatheredBy(n - 1)
\* de, fr, it without the primary language.
FallbackOrder == SelectSeq(<<"de", "fr", "it">>, LAMBDA l : l # language)

\* C27: during fallback the sub-queries are issued sequentially in the fixed
\* order de, fr, it with the primary language skipped; each one requests
\* exactly top_k minus the number of contexts gathered so far, a number that
\* is always >= 1; and no further sub-query is issued once the gathered total
\* has reached top_k.
C27_FallbackOrderAndSize ==
    /\ Len(queried) - 1 <= Len(FallbackOrder)
    /\ \A i \in FallbackCalls :
          /\ queried[i].language = FallbackOrder[i - 1]
          /\ queried[i].n_results = top_k - GatheredBy(i - 1)
          /\ queried[i].n_results >= 1
          /\ GatheredBy(i - 1) < top_k
    /\ (pc = "fallback" /\ queried # <<>>) => GatheredBy(Len(queried)) < top_k

\* C27 witness: a call in French has returned after two fallback sub-queries,
\* de and then it, the second asking for fewer results than the first.
C27_Witness ==
    /\ Done /\ language = "fr" /\ Len(queried) = 3
    /\ queried[3].n_results < queried[2].n_results
    /\ GatheredBy(3) >= 2

\* What C29 asks of every state: the store has been consulted only if
\* include_metadata is true and retrieval is over with at least one context;
\* with include_metadata false the result's mapping is empty; and every key of
\* the result's mapping is the vote_id of a returned context.
C29_State ==
    /\ dbLog # <<>> => (include_metadata /\ Retrieved /\ contexts # <<>>)
    /\ Done =>
          /\ ~include_metadata => Returned.initiative_metadata = EmptyMap
          /\ DOMAIN Returned.initiative_metadata
                \subseteq {Returned.contexts[i].vote_id : i \in 1..Len(Returned.contexts)}
\* What C29 asks of every step: the store is consulted between the end of
\* retrieval and the assembly of the context; once it has been consulted no
\* index call follows and the contexts no longer change.
C29_Step ==
    /\ dbLog' # dbLog =>
          /\ Len(dbLog') = Len(dbLog) + 1
          /\ Retrieved /\ result = <<>>
          /\ queried' = queried /\ contexts' = contexts
    /\ dbLog # <<>> => (queried' = queried /\ contexts' = contexts)
    /\ result # <<>> => dbLog' = dbLog

\* C29: in query_with_context the metadata store is consulted only after
\* retrieval (including all fallback sub-queries) has completed and before
\* the context is assembled, and only when include_metadata is true and at
\* least one context was retrieved; when include_metadata is false no lookup
\* is made and initiative_metadata is the empty mapping, and every key of
\* initiative_metadata is the vote_id of some returned context.
C29_MetadataAfterRetrieval == []C29_State /\ [][C29_Step]_vars

\* C29 witness: a call with include_metadata has returned after a fallback
\* sub-query and after lookups for two vote_ids, one of them missing from the
\* store.
C29_Witness ==
    /\ Done /\ include_metadata /\ Len(queried) >= 2
    /\ Cardinality({i \in 1..Len(dbLog) : dbLog[i].op = "lookup"}) = 2
    /\ Cardinality(DOMAIN Returned.initiative_metadata) = 1

\* The messages inlet was called with.
Messages0 == MessagesOf(inlet_body0)
\* A call made from the try block raised.
CallRaised == \E i \in 1..Len(inlet_log) : ~inlet_log[i].ok
\* Both calls of the try block returned.
RagSucceeded ==
    /\ Len(inlet_log) = 2
    /\ inlet_log[1].call = "query_with_context" /\ inlet_log[1].ok
    /\ inlet_log[2].call = "create_chat_prompt" /\ inlet_log[2].ok
\* The cases in which the claim leaves the body alone.
LeftAlone ==
    \/ Messages0 = <<>>
    \/ Last(Messages0).role # "user"
    \/ ~AnyIn(rag_keywords, Lower(Last(Messages0).content.text))
    \/ CallRaised

\* C30: inlet never raises because of RAG and returns the request body with
\* its messages unchanged whenever the message list is empty, the last message
\* is not a user message, the query matches no RAG keyword, or
\* query_with_context / prompt creation raises; the messages are replaced (by
\* exactly one system message followed by one user message containing the
\* query) only after a successful RAG call.
C30_InletFrame ==
    /\ inlet_pc # "raised"
    /\ (inlet_pc = "done" /\ LeftAlone) => inlet_body = inlet_body0
    /\ inlet_body # inlet_body0 =>
          /\ RagSucceeded
          /\ inlet_body.has_messages /\ Len(inlet_body.messages) = 2
          /\ inlet_body.messages[1].role = "system"
          /\ inlet_body.messages[2].role = "user"
          /\ inlet_body.messages[2].content.text = Last(Messages0).content.text

\* C30 witness: inlet has returned a body whose two messages, the last one a
\* user message with a keyword in upper case, were replaced after a RAG call
\* that brought a context.
C30_Witness ==
    /\ inlet_pc = "done" /\ inlet_body # inlet_body0
    /\ Len(Messages0) = 2
    /\ ~AnyIn(rag_keywords, Last(Messages0).content.text)
    /\ rag_result[1].contexts # <<>>

====
